---- MODULE Spec2Model ----
(***************************************************************************)
(* Model of the manual AGC of rtl_sdr.c (async mode, target_dbfs < 0):     *)
(* the sample callback (producer), the gain thread (actuator), the signal  *)
(* handler and the shutdown path of main.                                  *)
(*                                                                         *)
(* Shared memory is accessed without synchronisation in the source, so a   *)
(* step holds at most one access to pid_somme or max_event and the threads *)
(* interleave between the steps; work on a thread's own variables is       *)
(* grouped with the access before it.  A plain int that the compiler may   *)
(* keep in a register or read again is modelled by a register (p_reg,      *)
(* a_reg, zero while it holds nothing live) and a reload that may or may   *)
(* not happen.                                                             *)
(***************************************************************************)
EXTENDS Integers, Sequences, FiniteSets

\* ------------------------------------------------------------ constants
DBFS_MIN == -480
MAX_HZ == 5
PID_STEP == 300
GAINS_LEN == 100
I_CENTER == 158
Q_CENTER == 128

\* ------------------------------------------------------------ bounds
\* A run delivers at most MaxPairs pairs and closes at most MaxWindows
\* windows, in buffers of at most MaxBufPairs pairs; the tuner has at most
\* MaxGainCount gains.
MaxPairs == 5
MaxBufPairs == 3
MaxGainCount == 3
MaxWindows == 3

\* Inputs: the I/Q byte pairs a buffer is made of, the sessions (the -s
\* sample rate with the -g target), the -n byte budgets and the tuner's gain
\* table.  With the pairs' scores -480 and 0 the targets give the deltas
\* 330/-150, 300/-180 and 155/-325.
IQPairs == {<<158, 128>>, <<30, 128>>}
Sessions == {<<5, -325>>, <<10, -150>>, <<10, -180>>, <<15, -180>>}
BytesToRead == {0, 2}
DeviceGains == <<0, 9, 14, 27, 37, 77, 87, 125>>

\* The I/Q byte pairs at which the table is looked up on its own: the
\* centres, their neighbours, and a column at half scale.
LutPairs == {<<i, q>> : i \in {30, 157, 158, 159}, q \in {127, 128, 129}}

\* ------------------------------------------------------------ helpers
Abs(x) == IF x < 0 THEN -x ELSE x

\* All sequences over S of length 1..k.
SeqsUpTo(S, k) == UNION {[1..m -> S] : m \in 1..k}

\* ------------------------------------------------------------ dbfs_lut
\* (int)(100 * logf((float)mag / 16384.0)), tabulated at the magnitudes 1
\* and 2 (next to the centres), 2209, 16384 and 16385; the C conversion
\* truncates toward zero.
LogScore(mag) ==
  CASE mag = 1 -> -970
    [] mag = 2 -> -901
    [] mag = 2209 -> -200
    [] mag = 16384 -> 0
    [] mag = 16385 -> 0

Mag(i, q) == (i - I_CENTER) * (i - I_CENTER) + (q - Q_CENTER) * (q - Q_CENTER)

dbfs_lut(i, q) == IF Mag(i, q) > 0 THEN LogScore(Mag(i, q)) ELSE DBFS_MIN

Score(pair) == dbfs_lut(pair[1], pair[2])

\* ------------------------------------------------------------ state
VARIABLES
  \* configuration fixed by main before streaming starts
  samp_rate, target_dbfs, max_samples, gain_count,
  \* shared between the threads
  pid_somme, max_event, do_exit, bytes_to_read, cancel_async,
  \* main thread and device
  mpc, hw_gain,
  \* rtlsdr_callback (producer)
  ppc, buf, len, n, sample_index, max_dbfs, delta_gain, p_reg,
  \* set_new_gain_thread (actuator)
  apc, new_gain_index, gain_index, current_gain, a_reg,
  \* history of the run, read by the properties only
  win_scores, n_obs, n_fed, sum_deltas, all_small, in_band,
  n_inc, n_dec, n_post, wake_somme, wake_posts, disturbed, hw_calls,
  unexamined

cfg_vars == <<samp_rate, target_dbfs, max_samples, gain_count>>

shared_vars == <<pid_somme, max_event, do_exit, bytes_to_read, cancel_async>>

main_vars == <<mpc, hw_gain>>

prod_vars == <<ppc, buf, len, n, sample_index, max_dbfs, delta_gain, p_reg>>

act_vars == <<apc, new_gain_index, gain_index, current_gain, a_reg>>

prod_hist == <<win_scores, n_obs, n_fed, sum_deltas, all_small, in_band, n_post>>

act_hist == <<n_inc, n_dec, wake_somme, wake_posts, hw_calls>>

vars == <<cfg_vars, shared_vars, main_vars, prod_vars, act_vars, prod_hist, act_hist, disturbed, unexamined>>

\* ------------------------------------------------------------ startup
\* gains[] after initialize_gains: the first count entries come from the
\* tuner, the rest of the static array is zero.
InitGains(count) ==
  [i \in 0..(GAINS_LEN - 1) |-> IF i < count THEN DeviceGains[i + 1] ELSE 0]

\* gains[] is written by initialize_gains only; it is read off gain_count
\* here instead of being carried in the state.
gains == InitGains(gain_count)

\* gain_index chosen by initialize_gains.
InitGainIndex(count) == count \div 2

\* The state in which main enters rtlsdr_read_async with the AGC engaged:
\* the gain table is read, the startup gain is set, the window is armed and
\* the gain thread is created and about to wait; the callback stands at pc
\* with the buffer b.
Startup(b, pc) ==
  /\ \E s \in Sessions : samp_rate = s[1] /\ target_dbfs = s[2]
  /\ max_samples = samp_rate \div MAX_HZ
  /\ gain_count \in 1..MaxGainCount
  /\ pid_somme = 0
  /\ max_event = 0
  /\ do_exit = 0
  /\ bytes_to_read \in BytesToRead
  /\ cancel_async = FALSE
  /\ mpc = "read_async"
  /\ hw_gain = gains[InitGainIndex(gain_count)]
  /\ ppc = pc
  /\ buf = b
  /\ len = 2 * Len(b)
  /\ n = Len(b)
  /\ sample_index = max_samples
  /\ max_dbfs = DBFS_MIN
  /\ delta_gain = 0
  /\ p_reg = 0
  /\ apc = "select"
  /\ new_gain_index = InitGainIndex(gain_count)
  /\ gain_index = InitGainIndex(gain_count)
  /\ current_gain = gains[InitGainIndex(gain_count)]
  /\ a_reg = 0
  /\ win_scores = {}
  /\ n_obs = 0
  /\ n_fed = 0
  /\ sum_deltas = 0
  /\ all_small = TRUE
  /\ in_band = TRUE
  /\ n_inc = 0
  /\ n_dec = 0
  /\ n_post = 0
  /\ wake_somme = 0
  /\ wake_posts = 0
  /\ disturbed = FALSE
  /\ unexamined = FALSE
  /\ hw_calls = 0

Init == Startup(<<>>, "idle")

\* ------------------------------------------------------------ events
\* signal_event: write(fd, 1) adds one to the eventfd counter.
signal_event(c) == c + 1

\* Variant: an eventfd created with EFD_SEMAPHORE, whose read takes one off
\* the counter.
clear_event_semaphore(c) == IF c > 0 THEN c - 1 ELSE c

\* clear_event: read(fd) of a non-semaphore, non-blocking eventfd returns
\* the counter and resets it to zero; on a zero counter it fails with
\* EAGAIN at once and leaves it zero.
clear_event(c) == IF c > 0 THEN 0 ELSE c

\* ------------------------------------------------------------ producer
\* The bytes one loop iteration reads: p is set to buf at the top of every
\* iteration, so iteration k reads the first pair of the buffer.
SamplePair(b, k) == b[1]

\* level > max_dbfs ? level : max_dbfs
TrackPeak(cur, level) == IF level > cur THEN level ELSE cur

\* The pair the k-th iteration of the callback stands for in the stream.
StreamPair(b, k) == b[k]

\* The scores of the pairs of the window, after one more pair.
WinAdd(w, pair) == w \cup {Score(pair)}

\* The callback's own variables while it runs its loop over buffer b of l
\* bytes: st.n iterations are left, so the next one is number
\* (l \div 2) - st.n + 1.
Iteration(st, l) == (l \div 2) - st.n + 1

\* One iteration with the window open: sample_index--, then the level.
OpenSample(st, b, l) ==
  [n |-> st.n - 1,
   sample_index |-> st.sample_index - 1,
   max_dbfs |-> TrackPeak(st.max_dbfs, Score(SamplePair(b, Iteration(st, l)))),
   win_scores |-> WinAdd(st.win_scores, StreamPair(b, Iteration(st, l))),
   n_fed |-> st.n_fed + 1]

\* while (n--) for as long as sample_index > 0: these iterations touch
\* nothing another thread reads or writes.
RECURSIVE RunOpen(_, _, _)
RunOpen(st, b, l) ==
  IF st.n > 0 /\ st.sample_index > 0 THEN RunOpen(OpenSample(st, b, l), b, l) ELSE st

\* Variant: the window is reset to its full length although the
\* iteration's own sample is already counted in it.
ResetSample_full(st, b, l, length) ==
  [n |-> st.n - 1,
   sample_index |-> length,
   max_dbfs |-> TrackPeak(DBFS_MIN, Score(SamplePair(b, Iteration(st, l)))),
   win_scores |-> WinAdd({}, StreamPair(b, Iteration(st, l))),
   n_fed |-> st.n_fed + 1]

\* The iteration that finds sample_index = 0, after signal_event: the window
\* is reset and the iteration's own sample opens the new one.
ResetSample(st, b, l, length) ==
  [n |-> st.n - 1,
   sample_index |-> length - 1,
   max_dbfs |-> TrackPeak(DBFS_MIN, Score(SamplePair(b, Iteration(st, l)))),
   win_scores |-> WinAdd({}, StreamPair(b, Iteration(st, l))),
   n_fed |-> st.n_fed + 1]

\* Where the loop stands at st: either an iteration found the window
\* closed (the callback goes on to update_gain_pid), or the loop is over
\* and the callback returns through fwrite (a short write cancels the
\* stream) and the -n budget.
Proceed(at, b, l, cancelled) ==
  \E st \in {at} :
    /\ n' = st.n
    /\ sample_index' = st.sample_index
    /\ max_dbfs' = st.max_dbfs
    /\ win_scores' = st.win_scores
    /\ n_fed' = st.n_fed
    /\ IF st.n > 0
       THEN /\ ppc' = "close"
            /\ buf' = b
            /\ len' = l
            /\ cancel_async' = cancelled
            /\ UNCHANGED bytes_to_read
       ELSE /\ ppc' = "idle"
            /\ buf' = <<>>
            /\ len' = 0
            /\ \E short \in BOOLEAN : cancel_async' = (cancelled \/ short)
            /\ bytes_to_read' = IF bytes_to_read > 0 THEN bytes_to_read - l ELSE bytes_to_read

\* Variant: the window is armed anew at every call of the callback.
Local_rearmed == [n |-> n, sample_index |-> max_samples, max_dbfs |-> max_dbfs,
                  win_scores |-> win_scores, n_fed |-> n_fed]

\* The callback's variables as the previous call left them: sample_index
\* and max_dbfs are globals.
Local == [n |-> n, sample_index |-> sample_index, max_dbfs |-> max_dbfs,
          win_scores |-> win_scores, n_fed |-> n_fed]

\* rtlsdr_callback is entered with a buffer: the do_exit test (a call that
\* finds do_exit set returns at once and changes nothing), the -n
\* truncation, then the loop up to the first window close, if any.
rtlsdr_callback ==
  /\ mpc = "read_async"
  /\ ppc = "idle"
  /\ do_exit = 0
  /\ \E b \in SeqsUpTo(IQPairs, MaxBufPairs), odd \in 0..1 :
       LET l0 == 2 * Len(b) + odd
           trunc == bytes_to_read > 0 /\ bytes_to_read < l0
           l == IF trunc THEN bytes_to_read ELSE l0
       IN /\ n_fed + Len(b) <= MaxPairs
          /\ n_fed + Len(b) <= MaxWindows * max_samples + 1
          /\ do_exit' = IF trunc THEN 1 ELSE do_exit
          /\ Proceed(RunOpen([Local EXCEPT !.n = l \div 2], b, l), b, l, cancel_async \/ trunc)
  /\ UNCHANGED <<cfg_vars, pid_somme, max_event, main_vars, delta_gain, p_reg,
                 act_vars, n_obs, sum_deltas, all_small, in_band, n_post,
                 act_hist, disturbed, unexamined>>

\* The iteration that finds sample_index = 0:
\* delta_gain = target_dbfs - max_dbfs, and update_gain_pid reads pid_somme.
callback_close ==
  /\ ppc = "close"
  /\ delta_gain' = target_dbfs - max_dbfs
  /\ p_reg' = pid_somme
  /\ ppc' = "update"
  /\ UNCHANGED <<cfg_vars, shared_vars, main_vars, buf, len, n, sample_index, max_dbfs,
                 act_vars, prod_hist, act_hist, disturbed, unexamined>>

\* Variant: the callback applies the step itself when the sum crosses the
\* threshold, instead of leaving it to the gain thread.
update_gain_pid_stepping ==
  /\ ppc = "update"
  /\ pid_somme' = p_reg + delta_gain
  /\ p_reg' = 0
  /\ ppc' = "signal"
  /\ n_obs' = n_obs + 1
  /\ sum_deltas' = sum_deltas + delta_gain
  /\ all_small' = (all_small /\ Abs(delta_gain) < PID_STEP)
  /\ in_band' = (in_band /\ Abs(sum_deltas + delta_gain) <= PID_STEP)
  /\ disturbed' = (disturbed \/ apc \in {"sub", "test2", "add", "clamp"})
  /\ unexamined' = TRUE
  /\ gain_index' = IF pid_somme' > PID_STEP THEN gain_index + 1
                   ELSE IF pid_somme' < -PID_STEP THEN gain_index - 1
                   ELSE gain_index
  /\ UNCHANGED <<cfg_vars, max_event, do_exit, bytes_to_read, cancel_async, main_vars,
                 buf, len, n, sample_index, max_dbfs, delta_gain,
                 apc, new_gain_index, current_gain, a_reg,
                 win_scores, n_fed, n_post, act_hist>>

\* update_gain_pid: the store of pid_somme + delta.
update_gain_pid ==
  /\ ppc = "update"
  /\ pid_somme' = p_reg + delta_gain
  /\ p_reg' = 0
  /\ ppc' = "signal"
  /\ n_obs' = n_obs + 1
  /\ sum_deltas' = sum_deltas + delta_gain
  /\ all_small' = (all_small /\ Abs(delta_gain) < PID_STEP)
  /\ in_band' = (in_band /\ Abs(sum_deltas + delta_gain) <= PID_STEP)
  /\ disturbed' = (disturbed \/ apc \in {"sub", "test2", "add", "clamp"})
  /\ unexamined' = TRUE
  /\ UNCHANGED <<cfg_vars, max_event, do_exit, bytes_to_read, cancel_async, main_vars,
                 buf, len, n, sample_index, max_dbfs, delta_gain,
                 act_vars, win_scores, n_fed, n_post, act_hist>>

\* Variant: the post is a handshake that waits until the gain thread has
\* taken the previous post.
callback_signal_handshake ==
  /\ ppc = "signal"
  /\ max_event = 0
  /\ max_event' = signal_event(max_event)
  /\ n_post' = n_post + 1
  /\ Proceed(RunOpen(ResetSample(Local, buf, len, max_samples), buf, len), buf, len, cancel_async)
  /\ UNCHANGED <<cfg_vars, pid_somme, do_exit, main_vars, delta_gain, p_reg,
                 act_vars, n_obs, sum_deltas, all_small, in_band,
                 act_hist, disturbed, unexamined>>

\* signal_event(max_event), then the window reset, the iteration's sample
\* and the loop up to the next window close, if any.
callback_signal ==
  /\ ppc = "signal"
  /\ max_event' = signal_event(max_event)
  /\ n_post' = n_post + 1
  /\ Proceed(RunOpen(ResetSample(Local, buf, len, max_samples), buf, len), buf, len, cancel_async)
  /\ UNCHANGED <<cfg_vars, pid_somme, do_exit, main_vars, delta_gain, p_reg,
                 act_vars, n_obs, sum_deltas, all_small, in_band,
                 act_hist, disturbed, unexamined>>

\* ------------------------------------------------------------ actuator
\* Variant: select without a timeout, which returns only when the eventfd
\* is readable.
SelectReturns_untimed(c) == IF c > 0 THEN {1} ELSE {}

\* select(max_event + 1, &wait, NULL, NULL, 1 s): 1 when the eventfd is
\* readable; otherwise 0 after the timeout, or -1 when a signal interrupts.
SelectReturns(c) == IF c > 0 THEN {1} ELSE {0, -1}

\* Variant: the upper threshold itself already counts as crossed.
ExceedsHigh_inclusive(v) == v >= PID_STEP

\* pid_somme > 300
ExceedsHigh(v) == v > PID_STEP

\* Variant: the lower threshold itself already counts as crossed.
ExceedsLow_inclusive(v) == v <= -PID_STEP

\* pid_somme < -300
ExceedsLow(v) == v < -PID_STEP

\* Variant: the floor of the clamp is entry 0.
ClampIndex_floor0(i, count) ==
  IF i < 0 THEN 0
  ELSE IF i > count - 1 THEN count - 1
  ELSE i

\* Ensure new_gain_index points to a usable gain.
ClampIndex(i, count) ==
  IF i < 1 THEN 1
  ELSE IF i > count - 1 THEN count - 1
  ELSE i

\* Variant: the index is kept when the gain-set call failed.
GainIndexAfterSet_rollback(ok, new, old) == IF ok THEN new ELSE old

\* gain_index after verbose_gain_set returned (its result is not looked at).
GainIndexAfterSet(ok, new, old) == new

\* The tuner's gain after a gain-set call.
HwGainAfterSet(ok, value, old) == IF ok THEN value ELSE old

thread_select ==
  /\ mpc # "exited"
  /\ apc = "select"
  /\ \E sel \in SelectReturns(max_event) :
       /\ apc' = IF sel > 0 THEN "clear" ELSE "while"
  /\ UNCHANGED <<cfg_vars, shared_vars, main_vars, prod_vars,
                 new_gain_index, gain_index, current_gain, a_reg,
                 prod_hist, act_hist, disturbed, unexamined>>

\* new_gain_index = gain_index; clear_event(max_event);
thread_clear ==
  /\ mpc # "exited"
  /\ apc = "clear"
  /\ new_gain_index' = gain_index
  /\ max_event' = clear_event(max_event)
  /\ apc' = "test1"
  /\ wake_posts' = max_event
  /\ UNCHANGED <<cfg_vars, pid_somme, do_exit, bytes_to_read, cancel_async, main_vars,
                 prod_vars, gain_index, current_gain, a_reg,
                 prod_hist, n_inc, n_dec, wake_somme, hw_calls, disturbed, unexamined>>

\* if (pid_somme > 300): the read and the comparison.
thread_test_high ==
  /\ mpc # "exited"
  /\ apc = "test1"
  /\ a_reg' = pid_somme
  /\ apc' = IF ExceedsHigh(pid_somme) THEN "sub" ELSE "test2"
  /\ wake_somme' = pid_somme
  /\ disturbed' = FALSE
  /\ unexamined' = FALSE
  /\ UNCHANGED <<cfg_vars, shared_vars, main_vars, prod_vars,
                 new_gain_index, gain_index, current_gain,
                 prod_hist, n_inc, n_dec, wake_posts, hw_calls>>

\* pid_somme is a plain int: before it is modified the value may be read
\* again instead of being kept from the comparison.
thread_reload ==
  /\ mpc # "exited"
  /\ apc \in {"sub", "add"}
  /\ a_reg # pid_somme
  /\ a_reg' = pid_somme
  /\ UNCHANGED <<cfg_vars, shared_vars, main_vars, prod_vars,
                 apc, new_gain_index, gain_index, current_gain,
                 prod_hist, act_hist, disturbed, unexamined>>

\* pid_somme -= 300; new_gain_index++;
thread_sub ==
  /\ mpc # "exited"
  /\ apc = "sub"
  /\ pid_somme' = a_reg - PID_STEP
  /\ a_reg' = a_reg - PID_STEP
  /\ new_gain_index' = new_gain_index + 1
  /\ n_inc' = n_inc + 1
  /\ apc' = "test2"
  /\ UNCHANGED <<cfg_vars, max_event, do_exit, bytes_to_read, cancel_async, main_vars,
                 prod_vars, gain_index, current_gain,
                 prod_hist, n_dec, wake_somme, wake_posts, hw_calls, disturbed, unexamined>>

\* if (pid_somme < -300): compared on the value at hand or on a new read.
thread_test_low ==
  /\ mpc # "exited"
  /\ apc = "test2"
  /\ \E v \in {a_reg, pid_somme} :
       /\ a_reg' = v
       /\ apc' = IF ExceedsLow(v) THEN "add" ELSE "clamp"
  /\ UNCHANGED <<cfg_vars, shared_vars, main_vars, prod_vars,
                 new_gain_index, gain_index, current_gain,
                 prod_hist, act_hist, disturbed, unexamined>>

\* pid_somme += 300; new_gain_index--;
thread_add ==
  /\ mpc # "exited"
  /\ apc = "add"
  /\ pid_somme' = a_reg + PID_STEP
  /\ a_reg' = a_reg + PID_STEP
  /\ new_gain_index' = new_gain_index - 1
  /\ n_dec' = n_dec + 1
  /\ apc' = "clamp"
  /\ UNCHANGED <<cfg_vars, max_event, do_exit, bytes_to_read, cancel_async, main_vars,
                 prod_vars, gain_index, current_gain,
                 prod_hist, n_inc, wake_somme, wake_posts, hw_calls, disturbed, unexamined>>

\* Variant: the gain is set again on every signalled wake.
NeedsGainSet_always(new, old) == TRUE

\* if (new_gain_index != gain_index)
NeedsGainSet(new, old) == new # old

\* Variant: the event is cleared once more when the accumulator has been
\* dealt with, so that a post made during the wake is taken with it.
thread_clamp_clearing ==
  /\ mpc # "exited"
  /\ apc = "clamp"
  /\ new_gain_index' = ClampIndex(new_gain_index, gain_count)
  /\ IF NeedsGainSet(new_gain_index', gain_index)
     THEN /\ current_gain' = gains[new_gain_index']
          /\ apc' = "gain_set"
     ELSE /\ apc' = "while"
          /\ UNCHANGED current_gain
  /\ max_event' = clear_event(max_event)
  /\ wake_somme' = 0
  /\ wake_posts' = 0
  /\ disturbed' = FALSE
  /\ a_reg' = 0
  /\ UNCHANGED <<cfg_vars, pid_somme, do_exit, bytes_to_read, cancel_async,
                 main_vars, prod_vars, gain_index,
                 prod_hist, n_inc, n_dec, hw_calls, unexamined>>

\* The clamp and, when the index changes, current_gain = gains[new_gain_index].
thread_clamp ==
  /\ mpc # "exited"
  /\ apc = "clamp"
  /\ new_gain_index' = ClampIndex(new_gain_index, gain_count)
  /\ IF NeedsGainSet(new_gain_index', gain_index)
     THEN /\ current_gain' = gains[new_gain_index']
          /\ apc' = "gain_set"
     ELSE /\ apc' = "while"
          /\ UNCHANGED current_gain
  /\ wake_somme' = 0
  /\ wake_posts' = 0
  /\ disturbed' = FALSE
  /\ a_reg' = 0
  /\ UNCHANGED <<cfg_vars, shared_vars, main_vars, prod_vars, gain_index,
                 prod_hist, n_inc, n_dec, hw_calls, unexamined>>

\* verbose_gain_set(dev, current_gain) is entered.
thread_gain_set_call ==
  /\ mpc # "exited"
  /\ apc = "gain_set"
  /\ apc' = "in_gain_set"
  /\ hw_calls' = hw_calls + 1
  /\ UNCHANGED <<cfg_vars, shared_vars, main_vars, prod_vars,
                 new_gain_index, gain_index, current_gain, a_reg,
                 prod_hist, n_inc, n_dec, wake_somme, wake_posts, disturbed, unexamined>>

\* verbose_gain_set returns, having set the gain or failed;
\* gain_index = new_gain_index.
thread_gain_set_return ==
  /\ mpc # "exited"
  /\ apc = "in_gain_set"
  /\ \E ok \in BOOLEAN :
       /\ hw_gain' = HwGainAfterSet(ok, current_gain, hw_gain)
       /\ gain_index' = GainIndexAfterSet(ok, new_gain_index, gain_index)
  /\ apc' = "while"
  /\ UNCHANGED <<cfg_vars, shared_vars, mpc, prod_vars,
                 new_gain_index, current_gain, a_reg,
                 prod_hist, n_inc, n_dec, wake_somme, wake_posts, hw_calls, disturbed, unexamined>>

\* while (0 == do_exit); return
thread_while ==
  /\ mpc # "exited"
  /\ apc = "while"
  /\ apc' = IF do_exit = 0 THEN "select" ELSE "done"
  /\ UNCHANGED <<cfg_vars, shared_vars, main_vars, prod_vars,
                 new_gain_index, gain_index, current_gain, a_reg,
                 prod_hist, act_hist, disturbed, unexamined>>

set_new_gain_thread ==
  \/ thread_select
  \/ thread_clear
  \/ thread_test_high
  \/ thread_reload
  \/ thread_sub
  \/ thread_test_low
  \/ thread_add
  \/ thread_clamp
  \/ thread_gain_set_call
  \/ thread_gain_set_return
  \/ thread_while

\* ------------------------------------------------------------ shutdown
\* SIGINT, SIGTERM, SIGQUIT or SIGPIPE: do_exit = 1; rtlsdr_cancel_async.
sighandler ==
  /\ mpc # "exited"
  /\ do_exit = 0 \/ ~cancel_async
  /\ do_exit' = 1
  /\ cancel_async' = TRUE
  /\ UNCHANGED <<cfg_vars, pid_somme, max_event, bytes_to_read, main_vars,
                 prod_vars, act_vars, prod_hist, act_hist, disturbed, unexamined>>

\* rtlsdr_read_async returns once the stream is cancelled.
main_read_async_return ==
  /\ mpc = "read_async"
  /\ ppc = "idle"
  /\ cancel_async
  /\ mpc' = "close"
  /\ UNCHANGED <<cfg_vars, shared_vars, hw_gain,
                 prod_vars, act_vars, prod_hist, act_hist, disturbed, unexamined>>

\* fclose(file); rtlsdr_close(dev);
main_close ==
  /\ mpc = "close"
  /\ mpc' = "closed"
  /\ UNCHANGED <<cfg_vars, shared_vars, hw_gain,
                 prod_vars, act_vars, prod_hist, act_hist, disturbed, unexamined>>

\* free(buffer); return from main: the process and its threads end.
main_exit ==
  /\ mpc = "closed"
  /\ mpc' = "exited"
  /\ UNCHANGED <<cfg_vars, shared_vars, hw_gain,
                 prod_vars, act_vars, prod_hist, act_hist, disturbed, unexamined>>

\* ------------------------------------------------------------ system
Next ==
  \/ rtlsdr_callback
  \/ callback_close
  \/ update_gain_pid
  \/ callback_signal
  \/ thread_select
  \/ thread_clear
  \/ thread_test_high
  \/ thread_reload
  \/ thread_sub
  \/ thread_test_low
  \/ thread_add
  \/ thread_clamp
  \/ thread_gain_set_call
  \/ thread_gain_set_return
  \/ thread_while
  \/ sighandler
  \/ main_read_async_return
  \/ main_close
  \/ main_exit

Spec == Init /\ [][Next]_vars

\* The gain thread is scheduled while the process lives; nothing is assumed
\* of the other threads.
FairSpec == Init /\ [][Next]_vars /\ WF_vars(set_new_gain_thread)

\* ------------------------------------------------------------ the table alone
\* The first sample of the first window, for every pair of LutPairs.
LutInit == \E p \in LutPairs : Startup(<<p>>, "lookup")

\* level = dbfs_lut[i][q]; if (level > max_dbfs) max_dbfs = level;
dbfs_lookup ==
  /\ ppc = "lookup"
  /\ max_dbfs' = TrackPeak(max_dbfs, Score(SamplePair(buf, 1)))
  /\ win_scores' = WinAdd(win_scores, StreamPair(buf, 1))
  /\ ppc' = "looked"
  /\ UNCHANGED <<cfg_vars, shared_vars, main_vars, buf, len, n, sample_index,
                 delta_gain, p_reg, act_vars,
                 n_obs, n_fed, sum_deltas, all_small, in_band, n_post,
                 act_hist, disturbed, unexamined>>

LutNext == dbfs_lookup

LutSpec == LutInit /\ [][LutNext]_vars

\* ------------------------------------------------------------ properties
SetMax(S) == CHOOSE x \in S : \A y \in S : y <= x

\* The peak handed to the accumulator by the close in progress.
PeakHanded == target_dbfs - delta_gain

\* Step derived by the wake in progress, before the clamp.
WakeStep == new_gain_index - gain_index

\* C1. Peak correctness: when a window closes, the peak handed to the
\* accumulator is the maximum of the scores of the pairs delivered in that
\* window.
PeakCorrectness ==
  ppc = "update" => PeakHanded = SetMax(win_scores)

\* C2. Window closure: from startup, once exactly max_samples pairs of one
\* score s are fed, there is exactly one observation (one accumulator
\* update and one post) and its peak is s.
WindowClosure ==
  (ppc = "idle" /\ n_fed = max_samples /\ Cardinality(win_scores) = 1) =>
    (n_obs = 1 /\ n_post = 1 /\ PeakHanded \in win_scores)

\* C3. Hysteresis, step on crossing: a signalled wake that finds the
\* accumulator above 300 derives one Increase and leaves it 300 lower; below
\* -300 it derives one Decrease and leaves it 300 higher; at 300, -300 or
\* in between it derives no step.  Before the first step the accumulator the
\* wake finds is the sum of the producer's deltas.  (Stated of a wake during
\* which the producer adds no further delta.)
HysteresisStep ==
  (apc = "clamp" /\ ~disturbed) =>
    /\ wake_somme > PID_STEP =>
         (WakeStep = 1 /\ pid_somme = wake_somme - PID_STEP)
    /\ wake_somme < -PID_STEP =>
         (WakeStep = -1 /\ pid_somme = wake_somme + PID_STEP)
    /\ (wake_somme >= -PID_STEP /\ wake_somme <= PID_STEP) =>
         (WakeStep = 0 /\ pid_somme = wake_somme)
    /\ (n_inc + n_dec = Abs(WakeStep)) => wake_somme = sum_deltas

\* A first wake that found the sum of the deltas above 300 and derived one
\* Increase.
HysteresisStepWitness ==
  /\ apc = "clamp"
  /\ ~disturbed
  /\ n_inc = 1
  /\ n_dec = 0
  /\ sum_deltas > PID_STEP
  /\ wake_somme = sum_deltas
  /\ WakeStep = 1
  /\ pid_somme = sum_deltas - PID_STEP

\* C4 as stated. No step below threshold: as long as every single delta is
\* smaller than 300 in magnitude, no GainStep is derived.
NoStepOnSmallDeltas ==
  all_small => (n_inc = 0 /\ n_dec = 0)

\* C4 amended. As long as the running sum of the deltas has stayed within
\* [-300, 300], no GainStep is derived and the accumulator is that sum.
NoStepInsideBand ==
  in_band => (n_inc = 0 /\ n_dec = 0 /\ pid_somme = sum_deltas)

\* Two observations inside the band were examined by a wake and no step was
\* derived.
NoStepInsideBandWitness ==
  /\ in_band
  /\ n_obs = 2
  /\ sum_deltas # 0
  /\ apc = "clamp"
  /\ wake_somme = sum_deltas
  /\ WakeStep = 0

\* C5. Clamping invariant: the gain index stays inside [1, gain_count - 1]
\* and addresses an entry of gains[] that the tuner filled in.
ClampingInvariant ==
  /\ gain_index >= 1
  /\ gain_index <= gain_count - 1
  /\ gain_index < gain_count

\* C6. No missed termination: once do_exit is set the gain thread leaves
\* its loop and returns, whether or not the event was ever posted.  The
\* thread is not joined: when main returns first, the thread ends with the
\* process, and that is the other way it stops waiting.
NoMissedTermination ==
  (do_exit = 1) ~> (apc = "done" \/ mpc = "exited")

\* The gain thread returned after do_exit although no post was ever made.
NoMissedTerminationWitness ==
  /\ do_exit = 1
  /\ apc = "done"
  /\ n_post = 0
  /\ n_obs = 0
  /\ mpc # "exited"

\* C7. Signal coalescing: one clear empties the event however many posts
\* it holds, the thread goes to clear only an event that is pending, the
\* event becomes pending again only through a post of the producer, and
\* clearing an event that is not pending leaves it as it is.
SignalCoalescing ==
  /\ clear_event(0) = 0
  /\ [][/\ (apc = "clear" /\ apc' # "clear") => max_event' = 0
        /\ (apc = "select" /\ apc' = "clear") => max_event > 0
        /\ (max_event' > max_event) => (ppc = "signal" /\ max_event' = max_event + 1)
       ]_vars

\* One wake cleared two posts at once.
SignalCoalescingWitness ==
  /\ apc = "test1"
  /\ wake_posts = 2
  /\ n_post = 2
  /\ max_event = 0

\* C8. Consistent accumulator: the accumulator is the sum of the producer's
\* deltas minus 300 for every Increase and plus 300 for every Decrease
\* derived.
AccumulatorConsistent ==
  pid_somme = sum_deltas - PID_STEP * (n_inc - n_dec)

\* C9. Failed gain-set is non-fatal: when verbose_gain_set returns without
\* having set the gain, the thread issues no second call, sets gain_index to
\* the attempted index and goes on to its loop test.
FailedGainSetNonFatal ==
  [][(apc = "in_gain_set" /\ apc' # "in_gain_set" /\ hw_gain' # current_gain) =>
       (/\ gain_index' = new_gain_index
        /\ apc' = "while"
        /\ hw_calls' = hw_calls)
    ]_vars

\* A gain-set call failed: the tuner is not at the gain of the index the
\* thread now holds, and the thread is at its loop test.
FailedGainSetWitness ==
  /\ apc = "while"
  /\ hw_calls = 1
  /\ gain_index # InitGainIndex(gain_count)
  /\ gain_index = new_gain_index
  /\ current_gain = gains[gain_index]
  /\ hw_gain # current_gain

\* C10. Single writer of gain: a step of the callback changes neither
\* gain_index nor current_gain nor the tuner's gain and issues no gain-set
\* call; the call is issued and gain_index is written at the gain thread's
\* own steps only.
SingleWriterOfGain ==
  [][/\ (prod_vars' # prod_vars) =>
          UNCHANGED <<gain_index, current_gain, hw_gain, hw_calls>>
     /\ (hw_calls' # hw_calls) => apc = "gain_set"
     /\ (gain_index' # gain_index \/ hw_gain' # hw_gain) => apc = "in_gain_set"
     /\ (current_gain' # current_gain) => apc = "clamp"
    ]_vars

\* The callback closed a window while a gain-set call of the thread was in
\* flight.
SingleWriterWitness ==
  /\ apc = "in_gain_set"
  /\ hw_calls = 1
  /\ n_obs = 2
  /\ ppc = "signal"

\* C11. At most one step per wake: a signalled wake derives at most one
\* GainStep, so a wake that is about to derive a Decrease has derived no
\* Increase, and at the end of its accumulator part the index it proposes
\* is at most one away from gain_index.
OneStepPerWake ==
  /\ (apc = "add") => (new_gain_index = gain_index)
  /\ (apc = "clamp") => (Abs(WakeStep) <= 1)

\* C12. Hardware write only on index change: the gain thread goes to the
\* gain-set call only from a signalled wake, and then if and only if the
\* clamped new index differs from gain_index; the call is made once, with
\* gains[new_gain_index]; an iteration whose select timed out leaves the
\* accumulator, gain_index, current_gain and the event as they were.
HardwareWriteOnIndexChange ==
  [][/\ (apc' = "clear" /\ apc # "clear") => (apc = "select" /\ max_event > 0)
     /\ (apc = "clamp" /\ apc' # "clamp") =>
          /\ (apc' = "gain_set") <=> (new_gain_index' # gain_index)
          /\ apc' \in {"gain_set", "while"}
     /\ (apc' = "gain_set" /\ apc # "gain_set") => apc = "clamp"
     /\ (hw_calls' # hw_calls) =>
          /\ apc = "gain_set"
          /\ hw_calls' = hw_calls + 1
          /\ new_gain_index # gain_index
          /\ current_gain = gains[new_gain_index]
     /\ (apc = "in_gain_set" /\ apc' # "in_gain_set") =>
          (apc' = "while" /\ hw_gain' \in {current_gain, hw_gain})
     /\ (apc = "select" /\ apc' = "while") =>
          UNCHANGED <<pid_somme, gain_index, current_gain, max_event, hw_gain, hw_calls>>
    ]_vars

\* A wake moved the index from 1 to 2 of a table of three gains and its
\* gain-set call, the first of the run, is in flight.
HardwareWriteWitness ==
  /\ apc = "in_gain_set"
  /\ hw_calls = 1
  /\ gain_count = 3
  /\ gain_index = 1
  /\ new_gain_index = 2
  /\ current_gain = gains[2]

\* C13. Producer never waits on the actuator: wherever the gain thread
\* stands and whatever the event holds, each step of the callback's window
\* close (the read for the accumulator, its store, the post with the window
\* reset) can be taken at once.
ProducerNeverWaits ==
  [](/\ (ppc = "close") => ENABLED callback_close
     /\ (ppc = "update") => ENABLED update_gain_pid
     /\ (ppc = "signal") => ENABLED callback_signal)

\* The callback closed a second window and returned while the gain thread
\* was still in the gain-set call of its first wake; the second post is
\* pending.
ProducerNeverWaitsWitness ==
  /\ ppc = "idle"
  /\ n_post = 2
  /\ max_event = 1
  /\ apc = "in_gain_set"
  /\ hw_calls = 1
  /\ gain_count = 3

\* The number of observations that the first k pairs of a stream give.
ObsAfter(k) == IF k = 0 THEN 0 ELSE (k - 1) \div max_samples

\* C14. Partial windows persist across calls: however the stream is cut
\* into buffers, with or without a trailing unpaired byte, the number of
\* observations made after k pairs is the same function of k, and every
\* observation is made at the same position of the stream: number j by the
\* iteration that handles pair j * max_samples + 1.
PartialWindowsPersist ==
  /\ (ppc = "idle") => (n_obs = ObsAfter(n_fed) /\ n_post = n_obs)
  /\ (ppc \in {"close", "update"}) =>
       (n_fed = (n_obs + 1) * max_samples /\ n_obs + 1 = ObsAfter(n_fed + 1))
  /\ (ppc = "signal") =>
       (n_fed = n_obs * max_samples /\ n_obs = ObsAfter(n_fed + 1))

\* The second window of two pairs closes in a buffer of one pair and a
\* trailing byte: the buffers did not follow the windows.
PartialWindowsWitness ==
  /\ ppc = "close"
  /\ max_samples = 2
  /\ n_obs = 1
  /\ n_fed = 4
  /\ Len(buf) = 1
  /\ len = 3

\* C15. Signal only on threshold crossing: the callback posts the event
\* only when the accumulator, after the closing window's delta, lies
\* outside [-300, 300]; as long as every close has left it inside, there is
\* no post.
SignalOnlyOnCrossing ==
  in_band => (n_post = 0)

\* C16. Window partition: every pair is counted in exactly one window, a
\* window that closes holds exactly max_samples consecutive pairs, so that
\* successive observations are max_samples pairs apart, and the running
\* maximum is reset with it: when only a sample of the sentinel's score
\* follows the reset, the maximum is the sentinel whatever the closed
\* window's peak was.
WindowPartition ==
  /\ [](/\ sample_index \in 0..max_samples
        /\ n_fed = n_post * max_samples + (max_samples - sample_index)
        /\ (ppc \in {"close", "update", "signal"}) => (sample_index = 0))
  /\ [][(/\ ppc = "signal"
         /\ ppc' # "signal"
         /\ sample_index' = max_samples - 1
         /\ Score(SamplePair(buf, 1)) = DBFS_MIN) => (max_dbfs' = DBFS_MIN)
       ]_vars

\* Two windows of two pairs were closed, the second with a peak above the
\* sentinel, and the third is open with one pair of the sentinel's score.
WindowPartitionWitness ==
  /\ ppc = "idle"
  /\ max_samples = 2
  /\ n_post = 2
  /\ n_fed = 5
  /\ sample_index = 1
  /\ PeakHanded > DBFS_MIN
  /\ max_dbfs = DBFS_MIN

\* C17. Sentinel is the minimum score: the table's entry at the centres is
\* DBFS_MIN and no entry is below DBFS_MIN, so that a running maximum that
\* starts from DBFS_MIN is, after a pair, the score of that pair.
SentinelIsMinimum ==
  /\ dbfs_lut(I_CENTER, Q_CENTER) = DBFS_MIN
  /\ (ppc = "looked") =>
       (Score(buf[1]) >= DBFS_MIN /\ max_dbfs = SetMax(win_scores))

\* C18. No lost wake-up: an update of the accumulator by the callback that
\* no wake has yet read for its tests is either about to be posted (the
\* callback's next step), or posted and pending, or the gain thread has
\* just cleared the event and is about to read; and while streaming goes
\* on, every update that has been posted is followed by a read of the
\* accumulator for the tests.
NoLostWakeup ==
  /\ [](unexamined => (ppc = "signal" \/ max_event > 0 \/ apc = "test1"))
  /\ (unexamined /\ ppc # "signal") ~> (~unexamined \/ do_exit = 1 \/ mpc = "exited")

\* The callback updated the accumulator and posted while a wake, which had
\* already read the accumulator, was still at work: the post is pending for
\* the next wake.
NoLostWakeupWitness ==
  /\ unexamined
  /\ apc = "clamp"
  /\ max_event = 1
  /\ ppc = "idle"
  /\ do_exit = 0
  /\ n_obs = 2

\* C19. Clamped steps still drain the accumulator: when a wake has derived
\* a Decrease at index 1 or an Increase at index gain_count - 1, its clamp
\* brings the index back to gain_index, no gain-set call follows and the
\* wake is over; the accumulator keeps the adjustment the wake made, and in
\* a wake during which the callback stored nothing it is 300 nearer to zero
\* than the wake found it.
ClampedStepDrains ==
  [][(/\ apc = "clamp"
      /\ apc' # "clamp"
      /\ \/ (WakeStep = -1 /\ gain_index = 1)
         \/ (WakeStep = 1 /\ gain_index = gain_count - 1)) =>
       (/\ new_gain_index' = gain_index
        /\ gain_index' = gain_index
        /\ apc' = "while"
        /\ hw_calls' = hw_calls
        /\ hw_gain' = hw_gain
        /\ pid_somme' = pid_somme
        /\ ~disturbed => (/\ Abs(wake_somme) > PID_STEP
                          /\ Abs(pid_somme) = Abs(wake_somme) - PID_STEP))
    ]_vars

\* The first wake derived a Decrease at index 1 of a table of three gains:
\* the accumulator is 300 higher than the sum of the deltas, the index is
\* still 1 and no gain-set call was made.
ClampedStepWitness ==
  /\ apc = "while"
  /\ gain_count = 3
  /\ gain_index = 1
  /\ n_dec = 1
  /\ n_inc = 0
  /\ hw_calls = 0
  /\ sum_deltas < -PID_STEP
  /\ pid_somme = sum_deltas + PID_STEP

\* C20. No actuation after shutdown: no gain-set call is in flight once the
\* device has been closed, and no gain-set call starts after do_exit was
\* set or after the device has been closed.
NoActuationAfterShutdown ==
  /\ []((apc = "in_gain_set") => (mpc \notin {"closed", "exited"}))
  /\ [][(hw_calls' # hw_calls) => (do_exit = 0 /\ mpc \notin {"closed", "exited"})]_vars

====
